---------------------------- MODULE Spec2Model ----------------------------
(***************************************************************************)
(* Model of the per-frame update pipeline of src/src/main.rs: the systems  *)
(* move_player and update_camera, chained in the Update schedule, acting   *)
(* on the translations of the player, the opponent and the camera.         *)
(*                                                                         *)
(* Numbers.  The f32 coordinates are modelled on the integer grid of world *)
(* units; a vector carries a flag `nan` that is TRUE when its components   *)
(* are not finite numbers (0/0, or the normalisation of the zero vector).  *)
(* Time::delta_seconds() is a rational [num, den].  A square root is       *)
(* rounded down, so that `distance >= min_distance` is decided exactly; a  *)
(* product with a rational is rounded to the nearest grid point.           *)
(***************************************************************************)
EXTENDS Integers, Sequences, FiniteSets, TLC

PLAYER_SPEED == 200

CAM_LERP_FACTOR == 2

COLLISION_RADIUS == 25

\* Number of frames a behaviour of Spec runs.
MaxTicks == 3

VARIABLES
    player,      \* Transform.translation of the Player entity
    opponent,    \* Transform.translation of the Opponent entity
    camera,      \* Transform.translation of the Camera2d entity
    present,     \* which of the three single-entity queries succeed this frame
    time,        \* Res<Time>: delta_seconds() of this frame
    kb_input,    \* Res<ButtonInput<KeyCode>>: pressed(KeyA), pressed(KeyD)
    pc,          \* 0: between frames; i > 0: system Update[i] runs next
    tick,        \* frames started
    ran,         \* systems that have run in this frame, in order
    branch,      \* the path move_player took in this frame
    cam_target,  \* the local `direction` of update_camera in this frame
    skipped      \* an earlier frame's move_player returned early

vars == <<player, opponent, camera, present, time, kb_input, pc, tick, ran,
          branch, cam_target, skipped>>

---------------------------------------------------------------------------
(* Arithmetic *)

Abs(n) == IF n < 0 THEN -n ELSE n

\* a / b rounded to the nearest integer (b > 0), as f32 rounds to nearest.
RoundDiv(a, b) ==
    IF a >= 0 THEN (2 * a + b) \div (2 * b) ELSE -((2 * (-a) + b) \div (2 * b))

RECURSIVE SqrtBetween(_, _, _)
\* The largest r in lo..hi with r * r <= n, by bisection.
SqrtBetween(n, lo, hi) ==
    IF lo >= hi THEN lo
    ELSE CHOOSE r \in { IF mid * mid <= n THEN SqrtBetween(n, mid, hi)
                        ELSE SqrtBetween(n, lo, mid - 1) :
                            mid \in {(lo + hi + 1) \div 2} } : TRUE

\* f32::sqrt, rounded down to the grid (46340 is the largest root of a
\* 32-bit integer).  The argument is evaluated once.
Sqrt(n) ==
    CHOOSE r \in { SqrtBetween(m, 0, IF m < 46340 THEN m ELSE 46340) :
                       m \in {n} } : TRUE

\* A finite scalar, and the scalar NaN.
Num(n) == [nan |-> FALSE, v |-> n]

NaN == [nan |-> TRUE, v |-> 0]

Vec3(x, y, z) == [nan |-> FALSE, x |-> x, y |-> y, z |-> z]

\* A Vec3 whose components are NaN.
NaNVec == [nan |-> TRUE, x |-> 0, y |-> 0, z |-> 0]

Vec2(x, y) == [x |-> x, y |-> y]

---------------------------------------------------------------------------
(* glam operations used by the two systems *)

add(a, b) ==
    IF a.nan \/ b.nan THEN NaNVec ELSE Vec3(a.x + b.x, a.y + b.y, a.z + b.z)

sub(a, b) ==
    IF a.nan \/ b.nan THEN NaNVec ELSE Vec3(a.x - b.x, a.y - b.y, a.z - b.z)

dot(a, b) == a.x * b.x + a.y * b.y + a.z * b.z

\* Vec3::length
length(a) == IF a.nan THEN NaN ELSE Num(Sqrt(dot(a, a)))

\* Vec3::distance
distance(a, b) == length(sub(a, b))

\* Vec2::extend
extend(v, z) == Vec3(v.x, v.y, z)

\* Vec2::normalize_or_zero.  The length is exact for the axis-aligned
\* vectors the two keys produce.
normalize_or_zero(v) ==
    LET len == IF v.y = 0 THEN Abs(v.x) ELSE Sqrt(v.x * v.x + v.y * v.y)
    IN  IF len = 0 THEN Vec2(0, 0) ELSE Vec2(v.x \div len, v.y \div len)

\* Vec3::normalize: v * (1 / |v|), which is NaN for the zero vector.  The
\* unit vector of a nonzero v is represented by v itself: its only use,
\* reject_from, does not depend on the length of its argument.
normalize(v) == IF v.nan \/ dot(v, v) = 0 THEN NaNVec ELSE v

\* Vec3::reject_from: self - rhs * (self.dot(rhs) / rhs.dot(rhs))
reject_from(v, rhs) ==
    IF v.nan \/ rhs.nan \/ dot(rhs, rhs) = 0 THEN NaNVec
    ELSE LET d  == dot(v, rhs)
             rr == dot(rhs, rhs)
         IN  Vec3(v.x - RoundDiv(rhs.x * d, rr),
                  v.y - RoundDiv(rhs.y * d, rr),
                  v.z - RoundDiv(rhs.z * d, rr))

\* v * (n / d) for scalars n and d: n / d is NaN when d = 0 and n = 0, and
\* infinite when d = 0 and n > 0; either makes the product non-finite.
mul_ratio(v, n, d) ==
    IF v.nan \/ n.nan \/ d.nan \/ d.v = 0 THEN NaNVec
    ELSE Vec3(RoundDiv(v.x * n.v, d.v), RoundDiv(v.y * n.v, d.v),
              RoundDiv(v.z * n.v, d.v))

\* Vec3::lerp(rhs, s) == self + (rhs - self) * s, with s = s.num / s.den.
\* glam does not clamp s.
lerp(a, rhs, s) ==
    IF a.nan \/ rhs.nan THEN NaNVec
    ELSE Vec3(a.x + RoundDiv((rhs.x - a.x) * s.num, s.den),
              a.y + RoundDiv((rhs.y - a.y) * s.num, s.den),
              a.z + RoundDiv((rhs.z - a.z) * s.num, s.den))

---------------------------------------------------------------------------
(* The systems *)

\* The two systems added without .chain(), run in the other order.
UpdateUnchained == <<"update_camera", "move_player">>

\* The Update schedule: (move_player, update_camera).chain()
Update == <<"move_player", "update_camera">>

\* A query result taken without the check for Err.
get_single_unchecked(exists, translation) ==
    [ok |-> TRUE, translation |-> translation, radius |-> COLLISION_RADIUS]

\* Query::get_single / get_single_mut on a query that matches the entity
\* when it exists: Ok(its components) or Err.
get_single(exists, translation) ==
    [ok |-> exists, translation |-> translation, radius |-> COLLISION_RADIUS]

\* The keys tested with if / else if: KeyD overrides KeyA.
direction_last_key(kb) ==
    Vec2(IF kb.KeyD THEN 1 ELSE IF kb.KeyA THEN -1 ELSE 0, 0)

\* let mut direction = Vec2::ZERO, then -1 for KeyA and +1 for KeyD
direction(kb) ==
    Vec2((IF kb.KeyA THEN -1 ELSE 0) + (IF kb.KeyD THEN 1 ELSE 0), 0)

\* direction.normalize_or_zero() * PLAYER_SPEED * time.delta_seconds()
move_delta(kb, dt) ==
    LET d == normalize_or_zero(direction(kb))
    IN  Vec2(RoundDiv(d.x * PLAYER_SPEED * dt.num, dt.den),
             RoundDiv(d.y * PLAYER_SPEED * dt.num, dt.den))

\* player_transform.translation + move_delta.extend(0.)
new_position(p, kb, dt) == add(p, extend(move_delta(kb, dt), 0))

\* The test made against one radius instead of the sum of the two.
no_collision_one_radius(dist, min_distance) ==
    ~dist.nan /\ dist.v >= COLLISION_RADIUS

\* The test `distance >= min_distance`; a comparison with NaN is false.
no_collision(dist, min_distance) == ~dist.nan /\ dist.v >= min_distance

\* (distance - min_distance).max(0.0); f32::max ignores a NaN operand.
max_movement(dist, min_distance) ==
    IF dist.nan \/ dist.v - min_distance < 0 THEN Num(0)
    ELSE Num(dist.v - min_distance)

\* The collision branch of move_player: the player's new translation.
collision_move(p, o, kb, dt, dist, min_distance) ==
    LET direction_to_opponent == normalize(sub(o, p))
        delta     == extend(move_delta(kb, dt), 0)
        safe_move == mul_ratio(reject_from(delta, direction_to_opponent),
                               max_movement(dist, min_distance),
                               length(delta))
    IN  add(p, safe_move)

\* The path move_player takes.
move_branch(pq, oq, kb, dt) ==
    IF ~pq.ok \/ ~oq.ok THEN "skip"
    ELSE IF no_collision(distance(new_position(pq.translation, kb, dt),
                                  oq.translation),
                         pq.radius + oq.radius)
         THEN "move"
         ELSE "collision"

\* move_player: the player's translation after the system has run.
move_player(pq, oq, kb, dt) ==
    LET p            == pq.translation
        o            == oq.translation
        candidate    == new_position(p, kb, dt)
        dist         == distance(candidate, o)
        min_distance == pq.radius + oq.radius
    IN  IF ~pq.ok \/ ~oq.ok THEN p
        ELSE IF no_collision(dist, min_distance) THEN candidate
        ELSE collision_move(p, o, kb, dt, dist, min_distance)

\* The local `direction` of update_camera: (x, y + 150, camera.z)
camera_direction(c, p) ==
    IF c.nan \/ p.nan THEN NaNVec ELSE Vec3(p.x, p.y + 150, c.z)

\* time.delta_seconds() * CAM_LERP_FACTOR
lerp_factor(dt) == [num |-> dt.num * CAM_LERP_FACTOR, den |-> dt.den]

\* update_camera: the camera's translation after the system has run.
update_camera(cq, pq, dt) ==
    IF ~cq.ok \/ ~pq.ok THEN cq.translation
    ELSE lerp(cq.translation,
              camera_direction(cq.translation, pq.translation),
              lerp_factor(dt))

---------------------------------------------------------------------------
(* Frames *)

\* The values of time.delta_seconds() a frame may have: 0, 1/200, 1/4, 1/2, 1.
DeltaSeconds ==
    { [num |-> 0, den |-> 1], [num |-> 1, den |-> 200], [num |-> 1, den |-> 4],
      [num |-> 1, den |-> 2], [num |-> 1, den |-> 1] }

KeyStates == [KeyA : BOOLEAN, KeyD : BOOLEAN]

AllPresent == [player |-> TRUE, opponent |-> TRUE, camera |-> TRUE]

\* All three entities exist, or exactly one of them is missing.
Presence ==
    {AllPresent} \cup { [AllPresent EXCEPT ![e] = FALSE] :
                            e \in {"player", "opponent", "camera"} }

NoTarget == [some |-> FALSE, v |-> Vec3(0, 0, 0)]

\* setup_scene and setup_camera.  Camera2dBundle::default() places the
\* camera at (0, 0, 999.9), on the grid (0, 0, 1000).
Init ==
    /\ player = Vec3(0, 0, 2)
    /\ opponent = Vec3(150, 0, 1)
    /\ camera = Vec3(0, 0, 1000)
    /\ present = AllPresent
    /\ time = [num |-> 0, den |-> 1]
    /\ kb_input = [KeyA |-> FALSE, KeyD |-> FALSE]
    /\ pc = 0
    /\ tick = 0
    /\ ran = <<>>
    /\ branch = "none"
    /\ cam_target = NoTarget
    /\ skipped = FALSE

\* The engine starts a frame: Time and ButtonInput are updated, then the
\* Update schedule runs from its first system.
StartFrame(dt, kb, pr) ==
    /\ pc = 0
    /\ time' = dt
    /\ kb_input' = kb
    /\ present' = pr
    /\ pc' = 1
    /\ ran' = <<>>
    /\ skipped' = (skipped \/ branch = "skip")
    /\ branch' = "none"
    /\ cam_target' = NoTarget
    /\ UNCHANGED <<player, opponent, camera>>

Frame ==
    /\ tick < MaxTicks
    /\ tick' = tick + 1
    /\ \E dt \in DeltaSeconds, kb \in KeyStates, pr \in Presence :
           StartFrame(dt, kb, pr)

\* After a system, the next one of the chain, or the end of the frame.
Advance(name) ==
    /\ pc' = IF pc < Len(Update) THEN pc + 1 ELSE 0
    /\ ran' = Append(ran, name)

MovePlayer ==
    /\ pc \in 1..Len(Update)
    /\ Update[pc] = "move_player"
    /\ LET pq == get_single(present.player, player)
           oq == get_single(present.opponent, opponent)
       IN  /\ player' = move_player(pq, oq, kb_input, time)
           /\ branch' = move_branch(pq, oq, kb_input, time)
    /\ Advance("move_player")
    /\ UNCHANGED <<opponent, camera, present, time, kb_input, tick,
                   cam_target, skipped>>

UpdateCamera ==
    /\ pc \in 1..Len(Update)
    /\ Update[pc] = "update_camera"
    /\ LET cq == get_single(present.camera, camera)
           pq == get_single(present.player, player)
       IN  /\ camera' = update_camera(cq, pq, time)
           /\ cam_target' =
                 IF cq.ok /\ pq.ok
                 THEN [some |-> TRUE, v |-> camera_direction(camera, player)]
                 ELSE NoTarget
    /\ Advance("update_camera")
    /\ UNCHANGED <<player, opponent, present, time, kb_input, tick, branch,
                   skipped>>

Next == Frame \/ MovePlayer \/ UpdateCamera

Spec == Init /\ [][Next]_vars

\* The collision resolution over the positions an entity store may hold:
\* the player starts apart from the opponent, inside its circle, or on it.
InitPlaced ==
    /\ player \in { Vec3(x, 0, z) : x \in {0, 120, 150}, z \in {1, 2} }
    /\ opponent = Vec3(150, 0, 1)
    /\ camera = Vec3(0, 0, 1000)
    /\ present = AllPresent
    /\ time = [num |-> 0, den |-> 1]
    /\ kb_input = [KeyA |-> FALSE, KeyD |-> FALSE]
    /\ pc = 0
    /\ tick = 0
    /\ ran = <<>>
    /\ branch = "none"
    /\ cam_target = NoTarget
    /\ skipped = FALSE

SpecPlaced == InitPlaced /\ [][Next]_vars

\* Frames in which only KeyD, the key toward the opponent, is held and
\* delta_seconds() is 1/4 or 3/8, steps too short to carry the player past
\* the opponent.  The engine runs frames for ever; tick stops counting at
\* MaxTicks.
FramePress ==
    /\ tick' = IF tick < MaxTicks THEN tick + 1 ELSE tick
    /\ \E dt \in { [num |-> 1, den |-> 4], [num |-> 3, den |-> 8] } :
           StartFrame(dt, [KeyA |-> FALSE, KeyD |-> TRUE], AllPresent)

NextPress == FramePress \/ MovePlayer \/ UpdateCamera

\* The app's runner executes the Update schedule every frame, and a frame
\* runs every system of the schedule.
SpecPress == Init /\ [][NextPress]_vars /\ WF_vars(NextPress)

---------------------------------------------------------------------------
(* Properties *)

\* The system `name` is the one that runs next.
Running(name) == pc \in 1..Len(Update) /\ Update[pc] = name

\* The system `name` has run in this frame.
HasRun(name) == \E i \in 1..Len(ran) : ran[i] = name

\* Squared distance of the centres in the plane.
DistSq(a, b) == (a.x - b.x) * (a.x - b.x) + (a.y - b.y) * (a.y - b.y)

MinDistance == COLLISION_RADIUS + COLLISION_RADIUS

OnlyKeyD == kb_input.KeyD /\ ~kb_input.KeyA

\* b lies between a and c, inclusive.
Between(a, b, c) == (a <= b /\ b <= c) \/ (c <= b /\ b <= a)

\* The player's circle touches the opponent's.
InContact ==
    ~player.nan /\ DistSq(player, opponent) = MinDistance * MinDistance

\* C1: in every state reached from the spawned scene the player's position
\* is a number and the distance between the centres of the player and the
\* opponent is at least the sum of the radii (on the grid of world units,
\* which is coarser than the tolerance the claim allows).
C1_NoOverlap ==
    ~player.nan /\ DistSq(player, opponent) >= MinDistance * MinDistance

\* A frame pressed into the opponent took the collision branch and left the
\* player in contact.
C1_Witness ==
    /\ branch = "collision"
    /\ OnlyKeyD
    /\ time.num > 0
    /\ DistSq(player, opponent) = MinDistance * MinDistance

\* C2: the player, spawned left of the opponent, is never to the right of
\* the opponent's centre.
C2_NoTunnel == ~player.nan /\ player.x <= opponent.x

\* C3: after the first frame, with only KeyD held and delta_seconds() = 1,
\* the player is at (100, 0).
C3_Scenario ==
    ( /\ tick = 1
      /\ HasRun("move_player")
      /\ OnlyKeyD
      /\ time = [num |-> 1, den |-> 1]
      /\ present.player /\ present.opponent )
    => (~player.nan /\ player.x = 100 /\ player.y = 0)

\* C4: when every frame holds the key toward the opponent with a positive
\* delta_seconds(), the player eventually is, and stays, at exactly the sum
\* of the radii from the opponent.
C4_Converges == <>[]InContact

\* C5: a run of move_player with no key held, or with both KeyA and KeyD
\* held, leaves the player's translation unchanged.
C5_IdleIdempotence ==
    [][ (Running("move_player") /\ kb_input.KeyA = kb_input.KeyD)
            => player' = player ]_vars

\* move_player has run with both keys held, a positive delta_seconds() and
\* both entities present, on a player that had moved before.
C5_Witness ==
    /\ HasRun("move_player")
    /\ kb_input.KeyA /\ kb_input.KeyD
    /\ time.num > 0
    /\ present.player /\ present.opponent
    /\ branch = "move"
    /\ player.x # 0

\* C6: a run of update_camera puts the camera between its previous position
\* and the target (player.x, player.y + 150), inclusive.
C6_NoOvershoot ==
    [][ ( /\ Running("update_camera")
          /\ present.camera /\ present.player
          /\ ~player.nan /\ ~camera.nan )
            => /\ ~camera'.nan
               /\ Between(camera.x, camera'.x, player.x)
               /\ Between(camera.y, camera'.y, player.y + 150) ]_vars

\* C7: a frame runs move_player and then update_camera, and the target that
\* update_camera computed in a frame is the one of the player's position at
\* the end of that frame.
C7_SameFrameTarget ==
    /\ (pc = 0 /\ tick > 0) => ran = <<"move_player", "update_camera">>
    /\ cam_target.some =>
           /\ HasRun("move_player")
           /\ cam_target.v.nan = player.nan
           /\ cam_target.v.x = player.x
           /\ cam_target.v.y = player.y + 150

\* The first frame has ended: the player moved in it and the camera
\* computed its target.
C7_Witness ==
    /\ tick = 1
    /\ pc = 0
    /\ branch = "move"
    /\ player.x # 0
    /\ cam_target.some

\* C8: move_player leaves the player unchanged when the player or the
\* opponent is absent, update_camera leaves the camera unchanged when the
\* camera or the player is absent, neither position becomes undefined, and
\* with the entities present a legal candidate position is committed.
C8_AbsentIsNoOp ==
    [][ /\ (Running("move_player") /\ (~present.player \/ ~present.opponent))
               => player' = player
        /\ (Running("update_camera") /\ (~present.camera \/ ~present.player))
               => camera' = camera
        /\ ~player'.nan /\ ~camera'.nan
        /\ ( /\ Running("move_player")
             /\ present.player /\ present.opponent
             /\ branch' = "move" )
               => player' = new_position(player, kb_input, time) ]_vars

\* The first frame skipped move_player, and the second frame moved the
\* player and the camera.
C8_Witness ==
    /\ tick = 2
    /\ pc = 0
    /\ skipped
    /\ branch = "move"
    /\ player.x # 0
    /\ camera.y # 0

\* C9: when move_player is about to take the collision branch, max_movement
\* is max(0, |P - O| - min_distance) for the player's position P before the
\* move.
C9_MaxMovement ==
    ( /\ Running("move_player")
      /\ move_branch(get_single(present.player, player),
                     get_single(present.opponent, opponent),
                     kb_input, time) = "collision" )
    => LET pre == distance(player, opponent)
       IN  max_movement(distance(new_position(player, kb_input, time),
                                 opponent), MinDistance)
             = (IF pre.nan \/ pre.v < MinDistance THEN Num(0)
                ELSE Num(pre.v - MinDistance))

=============================================================================
